---------------------------- MODULE Spec2Model ----------------------------
(***************************************************************************)
(* k-medoids (PAM) assignment / swap-cost engine.                          *)
(*   clustering_algorithms/point.py               class Point              *)
(*   clustering_algorithms/k_medoids_algorithm.py class KMedoidsAlgorithm  *)
(* Points live on a line of integer coordinates; a point's idx is its      *)
(* position in the list handed to the orchestrator.  The orchestrator is   *)
(* built with labels = None (the default argument).                        *)
(***************************************************************************)
EXTENDS Integers, Sequences, FiniteSets

NumPoints == 3          \* points in the collection
MaxCoord  == 2          \* the points spread over 0..MaxCoord
MaxSwaps  == 1          \* successful swap_medoids calls explored in one run

Ids == 1..NumPoints

(***************************************************************************)
(* Python values held by the assignment fields and returned by the cost    *)
(* query: None, np.nan, a number, a reference to a Point (by idx), or a    *)
(* raised TypeError.                                                       *)
(***************************************************************************)
None      == [t |-> "None", v |-> 0]
nan       == [t |-> "nan", v |-> 0]
TypeError == [t |-> "TypeError", v |-> 0]
Num(x)    == [t |-> "num", v |-> x]
Ref(i)    == [t |-> "ref", v |-> i]

VARIABLES
    points,            \* KMedoidsAlgorithm.points: idx -> Point
    constructed,       \* an orchestrator exists (__init__ returned)
    clusters_num,      \* KMedoidsAlgorithm.clusters_num
    medoids_indices,   \* KMedoidsAlgorithm.medoids_indices
    last,              \* name of the last call made
    err,               \* exception raised by the last call, "" if none
    ret,               \* value returned by the last call
    swaps,             \* successful swap_medoids calls so far
    medoids,           \* update_clusters_assignment's local list (ids), pass in flight
    todo,              \* points the pass in flight has not assigned yet
    start,             \* the points as they were when the pass in flight began
    reordered          \* the pass in flight assigned some point ahead of an earlier one

vars == <<points, constructed, clusters_num, medoids_indices, last, err, ret, swaps,
          medoids, todo, start, reordered>>

(***************************************************************************)
(* Sequence helpers (list semantics of Python)                             *)
(***************************************************************************)
InSeq(x, s) == \E k \in 1..Len(s) : s[k] = x

IsDistinct(s) == \A j, k \in 1..Len(s) : j # k => s[j] # s[k]

\* list.remove(x): drops the first occurrence of x (x is in s)
ListRemove(s, x) ==
    LET k == CHOOSE j \in 1..Len(s) : s[j] = x /\ \A h \in 1..(j-1) : s[h] # x
    IN  SubSeq(s, 1, k-1) \o SubSeq(s, k+1, Len(s))

\* random.sample(population, k) for 0 <= k <= len: every k-arrangement
Samples(k) == {s \in [1..k -> Ids] : IsDistinct(s)}

(***************************************************************************)
(* utils.compute_distance: Euclidean distance, here on a line              *)
(***************************************************************************)
compute_distance(a, b) == IF a >= b THEN a - b ELSE b - a

\* a < b in Python on two non-None values: False as soon as one is nan
Less(a, b) == a.t = "num" /\ b.t = "num" /\ a.v < b.v
\* a >= b in Python on two non-None values
GreaterEq(a, b) == a.t = "num" /\ b.t = "num" /\ a.v >= b.v
\* a - b in Python
Minus(a, b) ==
    IF a.t \notin {"num", "nan"} \/ b.t \notin {"num", "nan"} THEN TypeError
    ELSE IF a = nan \/ b = nan THEN nan
    ELSE Num(a.v - b.v)

(***************************************************************************)
(* class Point                                                             *)
(***************************************************************************)
Point(idx, coordinates) ==
    [idx |-> idx, coordinates |-> coordinates,
     nearest_medoid |-> None, nearest_medoid_distance |-> None,
     second_nearest_medoid |-> None, second_nearest_medoid_distance |-> None]

\* lines 27 and 29 left out: the two distances survive the reset
ResetAssignment_KeepsDistances(self) ==
    [self EXCEPT !.nearest_medoid = nan, !.second_nearest_medoid = nan]

\* point.py 26-29
ResetAssignment(self) ==
    [self EXCEPT !.nearest_medoid = nan, !.nearest_medoid_distance = nan,
                 !.second_nearest_medoid = nan,
                 !.second_nearest_medoid_distance = nan]

\* lines 37-38 left out: a better nearest medoid overwrites the old one
\* without moving it to the second place
ScanMedoid_NoDemotion(self, medoid) ==
    LET distance == Num(compute_distance(self.coordinates, medoid.coordinates))
    IN  IF self.nearest_medoid = nan
           \/ Less(distance, self.nearest_medoid_distance)
        THEN [self EXCEPT
                 !.nearest_medoid = Ref(medoid.idx),
                 !.nearest_medoid_distance = distance]
        ELSE IF self.second_nearest_medoid = nan
                \/ Less(distance, self.second_nearest_medoid_distance)
        THEN [self EXCEPT
                 !.second_nearest_medoid = Ref(medoid.idx),
                 !.second_nearest_medoid_distance = distance]
        ELSE self

\* point.py 32-49: the body of the loop, for one medoid
ScanMedoid(self, medoid) ==
    LET distance == Num(compute_distance(self.coordinates, medoid.coordinates))
    IN  IF self.nearest_medoid = nan
           \/ Less(distance, self.nearest_medoid_distance)
        THEN [self EXCEPT
                 !.second_nearest_medoid = self.nearest_medoid,
                 !.second_nearest_medoid_distance = self.nearest_medoid_distance,
                 !.nearest_medoid = Ref(medoid.idx),
                 !.nearest_medoid_distance = distance]
        ELSE IF self.second_nearest_medoid = nan
                \/ Less(distance, self.second_nearest_medoid_distance)
        THEN [self EXCEPT
                 !.second_nearest_medoid = Ref(medoid.idx),
                 !.second_nearest_medoid_distance = distance]
        ELSE self

\* point.py 31: for medoid in medoids, from position k on
RECURSIVE ScanFrom(_, _, _)
ScanFrom(self, meds, k) ==
    IF k > Len(meds) THEN self
    ELSE ScanFrom(ScanMedoid(self, meds[k]), meds, k + 1)

\* `self in medoids`: Point defines no __eq__, so membership is identity
IsIn(self, meds) == \E k \in 1..Len(meds) : meds[k].idx = self.idx

\* only the medoids that already point at themselves are taken as medoids
update_cluster_assignment_MarkedOnly(self, meds) ==
    LET marked == SelectSeq(meds, LAMBDA m : m.nearest_medoid = Ref(m.idx))
    IN  IF IsIn(self, meds)
        THEN [self EXCEPT !.nearest_medoid = Ref(self.idx)]
        ELSE ScanFrom(ResetAssignment(self), marked, 1)

update_cluster_assignment(self, meds) ==
    IF IsIn(self, meds)
    THEN [self EXCEPT !.nearest_medoid = Ref(self.idx)]
    ELSE ScanFrom(ResetAssignment(self), meds, 1)

compute_medoid_replacement_cost(self, medoid_to_change, new_medoid, meds) ==
    LET new_medoid_distance ==
            Num(compute_distance(self.coordinates, new_medoid.coordinates))
    IN  IF IsIn(self, meds) THEN Num(0)
        ELSE IF self.nearest_medoid = Ref(medoid_to_change.idx)
        THEN IF self.second_nearest_medoid_distance = None THEN TypeError
             ELSE IF GreaterEq(new_medoid_distance,
                               self.second_nearest_medoid_distance)
             THEN Minus(self.second_nearest_medoid_distance,
                        self.nearest_medoid_distance)
             ELSE Minus(new_medoid_distance, self.nearest_medoid_distance)
        ELSE IF self.nearest_medoid_distance = None THEN TypeError
             ELSE IF GreaterEq(new_medoid_distance, self.nearest_medoid_distance)
             THEN Num(0)
             ELSE Minus(new_medoid_distance, self.nearest_medoid_distance)

(***************************************************************************)
(* class KMedoidsAlgorithm                                                 *)
(***************************************************************************)
\* the medoids in the order of medoids_indices instead of the order of points
prepare_medoids_IndexOrder(indices) == indices

\* prepare_medoids, as the idx of the points it returns:
\* [point for point in self.points if point.idx in self.medoids_indices]
prepare_medoids(indices) ==
    SelectSeq([i \in Ids |-> i], LAMBDA i : InSeq(i, indices))

\* the Point objects a list of idx refers to, as they are now
Objects(pts, ids) == [k \in 1..Len(ids) |-> pts[ids[k]]]

\* k_medoids_algorithm.py 61-62: for point in self.points, from point i on
RECURSIVE AssignFrom(_, _, _)
AssignFrom(pts, ids, i) ==
    IF i > NumPoints THEN pts
    ELSE AssignFrom(
            [pts EXCEPT ![i] = update_cluster_assignment(pts[i], Objects(pts, ids))],
            ids, i + 1)

AssignAll(pts, indices) == AssignFrom(pts, prepare_medoids(indices), 1)

pass == <<medoids, todo, start, reordered>>

\* the collections of NumPoints points, up to translation: distances depend
\* on differences of coordinates only, so the leftmost point is put at 0
PointSets == {c \in [Ids -> 0..MaxCoord] : \E i \in Ids : c[i] = 0}

Init ==
    /\ points \in {[i \in Ids |-> Point(i, c[i])] : c \in PointSets}
    /\ constructed = FALSE
    /\ clusters_num = 0
    /\ medoids_indices = <<>>
    /\ last = "Point"
    /\ err = ""
    /\ ret = None
    /\ swaps = 0
    /\ medoids = <<>>
    /\ todo = {}
    /\ start = <<>>
    /\ reordered = FALSE

\* KMedoidsAlgorithm(points, clusters_num = n)
\* random.sample raises ValueError when n < 0 or n > len(population)
Construct(n) ==
    /\ ~constructed
    /\ last' = "__init__"
    /\ clusters_num' = n
    /\ IF n < 0 \/ n > NumPoints
       THEN /\ err' = "ValueError"
            /\ UNCHANGED <<constructed, medoids_indices>>
       ELSE /\ err' = ""
            /\ constructed' = TRUE
            /\ medoids_indices' \in Samples(n)
    /\ ret' = None
    /\ UNCHANGED <<points, swaps, pass>>

\* update_clusters_assignment(), run to completion
update_clusters_assignment ==
    /\ constructed
    /\ points' = AssignAll(points, medoids_indices)
    /\ last' = "update_clusters_assignment"
    /\ err' = ""
    /\ ret' = None
    /\ UNCHANGED <<constructed, clusters_num, medoids_indices, swaps, pass>>

\* lines 112 and 113 exchanged: the append comes before the remove
swap_medoids_AppendFirst(old_medoid, new_medoid) ==
    /\ constructed
    /\ last' = "swap_medoids"
    /\ LET appended == Append(medoids_indices, new_medoid)
       IN  IF InSeq(old_medoid, appended)
           THEN /\ swaps < MaxSwaps
                /\ medoids_indices' = ListRemove(appended, old_medoid)
                /\ swaps' = swaps + 1
                /\ err' = ""
           ELSE /\ medoids_indices' = appended
                /\ err' = "ValueError"
                /\ UNCHANGED swaps
    /\ ret' = None
    /\ UNCHANGED <<points, constructed, clusters_num, pass>>

\* swap_medoids(old_medoid, new_medoid); list.remove raises ValueError when
\* the value is absent, before the append is reached
swap_medoids(old_medoid, new_medoid) ==
    /\ constructed
    /\ last' = "swap_medoids"
    /\ IF InSeq(old_medoid, medoids_indices)
       THEN /\ swaps < MaxSwaps
            /\ medoids_indices' =
                   Append(ListRemove(medoids_indices, old_medoid), new_medoid)
            /\ swaps' = swaps + 1
            /\ err' = ""
       ELSE /\ err' = "ValueError"
            /\ UNCHANGED <<medoids_indices, swaps>>
    /\ ret' = None
    /\ UNCHANGED <<points, constructed, clusters_num, pass>>

\* the query keeps the distance to the candidate in the point it is asked of
CostCall_Caching(p, old_medoid, new_medoid) ==
    /\ constructed
    /\ LET r == compute_medoid_replacement_cost(
                    points[p], points[old_medoid], points[new_medoid],
                    Objects(points, prepare_medoids(medoids_indices)))
       IN  /\ ret' = r
           /\ err' = IF r = TypeError THEN "TypeError" ELSE ""
    /\ points' = [points EXCEPT ![p].nearest_medoid_distance =
                     Num(compute_distance(points[p].coordinates,
                                          points[new_medoid].coordinates))]
    /\ last' = "compute_medoid_replacement_cost"
    /\ UNCHANGED <<constructed, clusters_num, medoids_indices, swaps, pass>>

\* point p is asked compute_medoid_replacement_cost(old, new, prepare_medoids())
CostCall(p, old_medoid, new_medoid) ==
    /\ constructed
    /\ LET r == compute_medoid_replacement_cost(
                    points[p], points[old_medoid], points[new_medoid],
                    Objects(points, prepare_medoids(medoids_indices)))
       IN  /\ ret' = r
           /\ err' = IF r = TypeError THEN "TypeError" ELSE ""
    /\ last' = "compute_medoid_replacement_cost"
    /\ UNCHANGED <<points, constructed, clusters_num, medoids_indices, swaps, pass>>

(***************************************************************************)
(* Spec: construction, reassignment and cost queries over every point set  *)
(***************************************************************************)
Next ==
    \/ \E n \in -1..(NumPoints + 1) : Construct(n)
    \/ update_clusters_assignment
    \/ \E p, o, n \in Ids : CostCall(p, o, n)

Spec == Init /\ [][Next]_vars

(***************************************************************************)
(* SpecSwap: construction, reassignment and swaps                          *)
(***************************************************************************)
NextSwap ==
    \/ \E n \in -1..(NumPoints + 1) : Construct(n)
    \/ update_clusters_assignment
    \/ \E o, n \in Ids : swap_medoids(o, n)

SpecSwap == Init /\ [][NextSwap]_vars

(***************************************************************************)
(* SpecPar: update_clusters_assignment with the iterations of its loop     *)
(* (k_medoids_algorithm.py 61-62) taken in any order over the list built   *)
(* on line 60                                                              *)
(***************************************************************************)
\* k_medoids_algorithm.py 60
BeginPass ==
    /\ constructed
    /\ todo = {}
    /\ medoids' = prepare_medoids(medoids_indices)
    /\ todo' = Ids
    /\ start' = points
    /\ reordered' = FALSE
    /\ last' = "assigning"
    /\ err' = ""
    /\ UNCHANGED <<points, constructed, clusters_num, medoids_indices, ret, swaps>>

\* k_medoids_algorithm.py 62, for point i
AssignStep(i) ==
    /\ i \in todo
    /\ points' = [points EXCEPT
                    ![i] = update_cluster_assignment(points[i], Objects(points, medoids))]
    /\ todo' = todo \ {i}
    /\ reordered' = (reordered \/ \E j \in todo : j < i)
    /\ last' = IF todo' = {} THEN "update_clusters_assignment" ELSE "assigning"
    /\ UNCHANGED <<constructed, clusters_num, medoids_indices, err, ret, swaps,
                   medoids, start>>

NextPar ==
    \/ \E n \in -1..(NumPoints + 1) : Construct(n)
    \/ BeginPass
    \/ \E i \in Ids : AssignStep(i)

SpecPar == Init /\ [][NextPar]_vars

(***************************************************************************)
(* Reference definitions for the properties: distances computed by brute   *)
(* force over the set of current medoids                                   *)
(***************************************************************************)
MedoidSet(indices) == {i \in Ids : InSeq(i, indices)}

Dist(pts, p, m) == compute_distance(pts[p].coordinates, pts[m].coordinates)

\* the smallest distance from p to a medoid of M (M not empty)
MinDist(pts, p, M) ==
    CHOOSE d \in {Dist(pts, p, m) : m \in M} :
        \A m \in M : d <= Dist(pts, p, m)

\* the second smallest, counted with multiplicity (M has two medoids or more)
SecondMinDist(pts, p, M) ==
    LET d1 == MinDist(pts, p, M)
        at1 == {m \in M : Dist(pts, p, m) = d1}
    IN  IF Cardinality(at1) >= 2 THEN d1 ELSE MinDist(pts, p, M \ at1)

Earliest(S) == CHOOSE x \in S : \A y \in S : x <= y

Assigned == last = "update_clusters_assignment" /\ err = ""

\* what point p adds to the total clustering cost
Contribution(pts, indices, p) ==
    IF p \in MedoidSet(indices) THEN 0 ELSE pts[p].nearest_medoid_distance.v

RECURSIVE SumOver(_, _)
SumOver(f, S) ==
    IF S = {} THEN 0
    ELSE LET x == CHOOSE y \in S : TRUE IN f[x] + SumOver(f, S \ {x})

\* C1: after update_clusters_assignment over K >= 1 distinct medoids, every
\* non-medoid point holds the smallest and (K >= 2) the second smallest
\* distance to the medoids, the first not above the second; with K = 1 the
\* second-nearest fields stay unassigned (nan).
C1_NearestAndSecondAreTrueMinima ==
    (Assigned /\ IsDistinct(medoids_indices) /\ Len(medoids_indices) >= 1) =>
        LET M == MedoidSet(medoids_indices) IN
        \A p \in Ids \ M :
            /\ points[p].nearest_medoid_distance = Num(MinDist(points, p, M))
            /\ IF Len(medoids_indices) >= 2
               THEN /\ points[p].second_nearest_medoid_distance =
                           Num(SecondMinDist(points, p, M))
                    /\ points[p].nearest_medoid_distance.v <=
                           points[p].second_nearest_medoid_distance.v
               ELSE /\ points[p].second_nearest_medoid = nan
                    /\ points[p].second_nearest_medoid_distance = nan

\* a point whose nearest medoid was met after its second nearest one
C1_Witness ==
    /\ Assigned
    /\ \E p \in Ids \ MedoidSet(medoids_indices) :
          /\ points[p].second_nearest_medoid.t = "ref"
          /\ points[p].nearest_medoid.v > points[p].second_nearest_medoid.v
          /\ points[p].nearest_medoid_distance.v <
                 points[p].second_nearest_medoid_distance.v

\* C2: in a state produced by update_clusters_assignment, for every medoid
\* old and non-medoid new, every point's compute_medoid_replacement_cost is
\* the change of its contribution to the total cost made by the swap followed
\* by a reassignment, and the costs of all points add up to the change of the
\* total cost.
C2_SwapCostIsCostChange ==
    (Assigned /\ IsDistinct(medoids_indices)) =>
        LET M == MedoidSet(medoids_indices)
            meds == Objects(points, prepare_medoids(medoids_indices))
        IN  \A old \in M : \A new \in Ids \ M :
              LET swapped == Append(ListRemove(medoids_indices, old), new)
                  after == AssignAll(points, swapped)
                  cost == [p \in Ids |->
                              compute_medoid_replacement_cost(
                                  points[p], points[old], points[new], meds)]
                  change == [p \in Ids |->
                                Contribution(after, swapped, p)
                                  - Contribution(points, medoids_indices, p)]
              IN  /\ \A p \in Ids : cost[p] = Num(change[p])
                  /\ SumOver([p \in Ids |-> cost[p].v], Ids) = SumOver(change, Ids)

\* C3: after update_clusters_assignment every medoid points at itself and
\* its two distance fields hold no number.
C3_MedoidsCarryNoDistance ==
    Assigned =>
        \A i \in MedoidSet(medoids_indices) :
            /\ points[i].nearest_medoid = Ref(i)
            /\ points[i].nearest_medoid_distance.t # "num"
            /\ points[i].second_nearest_medoid_distance.t # "num"

\* C4: medoids_indices always holds exactly clusters_num pairwise distinct
\* idx of points of the collection.
C4_MedoidsAreKDistinctPoints ==
    constructed =>
        /\ Len(medoids_indices) = clusters_num
        /\ IsDistinct(medoids_indices)
        /\ \A k \in 1..Len(medoids_indices) : medoids_indices[k] \in Ids

\* C5: a call of compute_medoid_replacement_cost changes no assignment field
\* of any point and leaves medoids_indices as it was.
C5_CostQueryChangesNothing ==
    [][last' = "compute_medoid_replacement_cost" =>
          (points' = points /\ medoids_indices' = medoids_indices)]_vars

\* a query answered on the branch where the candidate becomes the nearest medoid
C5_Witness ==
    /\ last = "compute_medoid_replacement_cost"
    /\ ret.t = "num"
    /\ ret.v < 0

\* C6: swap_medoids with an old medoid that is not in medoids_indices raises
\* and leaves medoids_indices as it was: every step either raised ValueError
\* with medoids_indices unchanged, or is no swap_medoids(o, n) with o absent.
C6_FailedSwapChangesNothing ==
    [][\/ (err' = "ValueError" /\ medoids_indices' = medoids_indices)
       \/ \A o \in Ids : ~InSeq(o, medoids_indices) =>
                            \A n \in Ids : ~swap_medoids(o, n)]_vars

\* a swap that failed on a non-empty list of medoids
C6_Witness ==
    /\ last = "swap_medoids"
    /\ err = "ValueError"
    /\ Len(medoids_indices) >= 1

\* C7: no orchestrator is built with clusters_num above the number of points
\* or not positive: the length of medoids_indices is in 1..N.
C7_ConstructionRejectsBadClusterCount ==
    constructed =>
        /\ clusters_num \in 1..NumPoints
        /\ Len(medoids_indices) \in 1..NumPoints

\* C8: update_clusters_assignment called twice in a row leaves every point
\* as the first call left it.
C8_ReassignIsIdempotent ==
    [][(last = "update_clusters_assignment"
            /\ last' = "update_clusters_assignment") => points' = points]_vars

\* reassigned after a swap, with a medoid that still carries the distance it
\* had as a non-medoid, and a non-medoid point
C8_Witness ==
    /\ Assigned
    /\ swaps >= 1
    /\ \E i \in MedoidSet(medoids_indices) :
          points[i].nearest_medoid_distance.t = "num"
    /\ MedoidSet(medoids_indices) # Ids

C10_AnyOrderSameResult ==
    (last = "update_clusters_assignment" /\ start # <<>> /\ todo = {}) =>
        points = AssignFrom(start, medoids, 1)

\* a finished pass that assigned some point ahead of an earlier one, with
\* medoids and non-medoids
C10_Witness ==
    /\ last = "update_clusters_assignment"
    /\ start # <<>>
    /\ todo = {}
    /\ reordered
    /\ medoids # <<>>
    /\ Len(medoids) < NumPoints

=============================================================================
